---------------------------- MODULE Spec2Model ----------------------------
(***************************************************************************)
(* A model of adonis-controller-validator: the rule engine                 *)
(* (src/validators), the run orchestrator (runValidation), the two entry   *)
(* points that turn a run's summary into an exit status, the CLI's         *)
(* loadConfig and the route parser's extractPathParams.                    *)
(*                                                                         *)
(* Strings that the program transforms or concatenates are sequences of    *)
(* one-character strings; strings it only copies are TLA+ strings.         *)
(* An optional boolean field (hasGenericType?, usesAppErrors?) is a set:   *)
(* {} when the field is absent, {b} when it holds b.                       *)
(***************************************************************************)
EXTENDS Integers, Sequences, FiniteSets, TLC

VARIABLES
    \* ---- inputs of one run (fixed by Init) ----
    entry,              \* "cli" (src/cli.ts) or "ace" (commands/validate_controllers)
    config,             \* the ValidatorConfig handed to runValidation
    noFail,             \* the Ace command's noFail field
    routesFileReadable, \* whether parseRoutes can load the tsconfig and the routes file
    routes,             \* what parseRoutes returns for the project's routes file
    project,            \* the controllers directory: path -> file content or Missing
    \* ---- runValidation's locals ----
    pc,                 \* position in the entry point / runValidation
    routesByController, \* the grouped Map, as its entries in insertion order
    ci,                 \* index of the Map entry the outer for-of loop is at
    ri,                 \* index of the route the inner for-of loop is at
    methodAnalyses,     \* analyzeController's Map for the current controller
    results,            \* runValidation's results array
    \* ---- what the run returns and the process does ----
    summary,            \* the RunResult returned, NoSummary before
    exitCode,           \* process exit status, NoExit before the entry point ends
    printed,            \* what the entry point printed or logged, in order
    \* ---- observations of the run (history) ----
    validated,          \* the route each element of results was pushed for
    analyzed,           \* the paths analyzeController was called with, in order
    warnings,           \* console.warn lines, in order
    \* ---- rule engine applied to one MethodAnalysis ----
    analysis,           \* the MethodAnalysis under test
    call,               \* the function applied on its own and its result
    \* ---- a function of the parsers or of the configuration on its own ----
    input               \* the argument it is applied to

vars == <<entry, config, noFail, routesFileReadable, routes, project, pc,
          routesByController, ci, ri, methodAnalyses, results, summary, exitCode,
          printed, validated, analyzed, warnings, analysis, call, input>>

runVars == <<entry, config, noFail, routesFileReadable, routes, project, pc,
             routesByController, ci, ri, methodAnalyses, results, summary, exitCode,
             printed, validated, analyzed, warnings>>

ruleVars == <<analysis, call, input>>

----------------------------------------------------------------------------
(* Bounds of the model *)

\* longest list of routes parseRoutes returns
MaxRoutes == 2

\* longest list of return statements of one method
MaxReturns == 2

----------------------------------------------------------------------------
(* Sequences *)

Range(s) == { s[i] : i \in 1..Len(s) }

\* all sequences over S of length at most n
SeqUpTo(S, n) == UNION { [1..k -> S] : k \in 0..n }

\* JavaScript's !x for an optional boolean: undefined and false are falsy
Not(opt) == opt # {TRUE}

Undefined == {}


----------------------------------------------------------------------------
(* Data model: src/types.ts *)

\* ReturnStatement.text samples: TextOfLen(n) is a text of n characters whose
\* i-th character shows i mod 10, so that no two prefixes look alike
DigitChars == << "0", "1", "2", "3", "4", "5", "6", "7", "8", "9" >>

TextOfLen(n) == [ i \in 1..n |-> DigitChars[(i % 10) + 1] ]

\* the text lengths the rule engine is tried on: below and above the excerpt
TextLens == { 3, 52 }

\* a text one character longer than the excerpt that ends in a dot, as the
\* expression  cond ?? 1.  does
DottedText == TextOfLen(50) \o << "." >>

\* the texts of the errorResponse returns, the only returns whose text is read
ErrorTexts == { TextOfLen(n) : n \in TextLens } \cup { DottedText }

ShortText == TextOfLen(3)

ReturnLines == 3..(3 + MaxReturns)

\* a ReturnStatement as analyzeReturnStatements builds one: hasGenericType
\* only on a successResponse, usesAppErrors only on an errorResponse
ReturnStatement(line, type, flag, text) ==
    [ line |-> line,
      type |-> type,
      hasGenericType |-> IF type = "successResponse" THEN { flag } ELSE Undefined,
      usesAppErrors |-> IF type = "errorResponse" THEN { flag } ELSE Undefined,
      text |-> text ]

ReturnStatements ==
    { ReturnStatement(l, "successResponse", f, ShortText) :
        l \in ReturnLines, f \in BOOLEAN }
    \cup { ReturnStatement(l, "errorResponse", f, t) :
        l \in ReturnLines, f \in BOOLEAN, t \in ErrorTexts }
    \cup { ReturnStatement(l, "other", FALSE, ShortText) : l \in ReturnLines }

\* the return statements of one method, one per line, in source order
ReturnLists ==
    { s \in SeqUpTo(ReturnStatements, MaxReturns) :
        \A i \in 1..Len(s) : \A j \in 1..Len(s) : i < j => s[i].line < s[j].line }

MethodAnalysisOf(controller, method, filePath, line, usesRequest, usesParams, hasValidateUsing, returnStatements) ==
    [ controller |-> controller,
      method |-> method,
      filePath |-> filePath,
      line |-> line,
      usesRequest |-> usesRequest,
      usesParams |-> usesParams,
      hasValidateUsing |-> hasValidateUsing,
      returnStatements |-> returnStatements ]

\* the MethodAnalysis values the rule engine is tried on
MethodAnalyses ==
    { MethodAnalysisOf(<< "TestController" >>, << "show" >>, << "test.ts" >>, l, rq, pa, vu, rs) :
        l \in 1..2, rq \in BOOLEAN, pa \in BOOLEAN, vu \in BOOLEAN, rs \in ReturnLists }

Violation(rule, message, line, severity) ==
    [ rule |-> rule, message |-> message, line |-> line, severity |-> severity ]

\* JavaScript's null
Null == [ null |-> TRUE ]

----------------------------------------------------------------------------
(* Rule engine: src/validators *)

MsgUsesRequest ==
    << "Method uses 'request' but does not call 'request.validateUsing()'. All request data must be validated." >>

MsgUsesParams ==
    << "Method uses 'params' but does not call 'request.validateUsing()'. Consider adding parameter validation." >>

MsgUntypedSuccess ==
    << "successResponse() missing generic type parameter. Use successResponse<Type>(data) for type safety." >>

MsgErrorPrefix == << "errorResponse() must use AppErrors constants. Found: " >>

\* the three dots checkErrorResponse puts after the excerpt
Ellipsis == << ".", ".", "." >>

\* the bound of the excerpt checkErrorResponse quotes
ExcerptLen == 50

\* String.prototype.substring(0, n)
Substring0(text, n) == SubSeq(text, 1, IF Len(text) < n THEN Len(text) ELSE n)

\* faulty variant: the params branch is tested first and without its usesRequest guard
checkValidateUsingParamsFirst(a) ==
    IF a.usesParams /\ ~a.hasValidateUsing
    THEN Violation("validate-using", MsgUsesParams, a.line, "warning")
    ELSE IF a.usesRequest /\ ~a.hasValidateUsing
         THEN Violation("validate-using", MsgUsesRequest, a.line, "error")
         ELSE Null

\* faulty variant: the params branch forgets to look at hasValidateUsing
checkValidateUsingWarnValidated(a) ==
    IF a.usesRequest /\ ~a.hasValidateUsing
    THEN Violation("validate-using", MsgUsesRequest, a.line, "error")
    ELSE IF a.usesParams /\ ~a.usesRequest
         THEN Violation("validate-using", MsgUsesParams, a.line, "warning")
         ELSE Null

checkValidateUsing(a) ==
    IF a.usesRequest /\ ~a.hasValidateUsing
    THEN Violation("validate-using", MsgUsesRequest, a.line, "error")
    ELSE IF a.usesParams /\ ~a.hasValidateUsing /\ ~a.usesRequest
         THEN Violation("validate-using", MsgUsesParams, a.line, "warning")
         ELSE Null

RECURSIVE successViolations(_)
successViolations(rets) ==
    IF rets = << >> THEN << >>
    ELSE LET ret == Head(rets)
         IN  (IF ret.type = "successResponse" /\ Not(ret.hasGenericType)
              THEN << Violation("success-response-typed", MsgUntypedSuccess, ret.line, "error") >>
              ELSE << >>)
             \o successViolations(Tail(rets))

\* faulty variant: the test of the return's type is dropped, so every return without
\* a generic type is reported
RECURSIVE successViolationsAnyType(_)
successViolationsAnyType(rets) ==
    IF rets = << >> THEN << >>
    ELSE (IF Not(Head(rets).hasGenericType)
          THEN << Violation("success-response-typed", MsgUntypedSuccess, Head(rets).line, "error") >>
          ELSE << >>)
         \o successViolationsAnyType(Tail(rets))

checkSuccessResponseAnyType(a) == successViolationsAnyType(a.returnStatements)

checkSuccessResponse(a) == successViolations(a.returnStatements)

RECURSIVE errorViolations(_)
errorViolations(rets) ==
    IF rets = << >> THEN << >>
    ELSE LET ret == Head(rets)
         IN  (IF ret.type = "errorResponse" /\ Not(ret.usesAppErrors)
              THEN << Violation("error-response-app-errors",
                                MsgErrorPrefix \o Substring0(ret.text, ExcerptLen) \o Ellipsis,
                                ret.line, "error") >>
              ELSE << >>)
             \o errorViolations(Tail(rets))

\* faulty variant: the whole text of the return is quoted
RECURSIVE errorViolationsFullText(_)
errorViolationsFullText(rets) ==
    IF rets = << >> THEN << >>
    ELSE (IF Head(rets).type = "errorResponse" /\ Not(Head(rets).usesAppErrors)
          THEN << Violation("error-response-app-errors",
                            MsgErrorPrefix \o Head(rets).text \o Ellipsis,
                            Head(rets).line, "error") >>
          ELSE << >>)
         \o errorViolationsFullText(Tail(rets))

checkErrorResponseFullText(a) == errorViolationsFullText(a.returnStatements)

checkErrorResponse(a) == errorViolations(a.returnStatements)

\* faulty variant: the two branches of the request-validation rule are tested one
\* after the other, the second without excluding the first
validateMethodBothBranches(a) ==
    LET violations ==
            (IF a.usesRequest /\ ~a.hasValidateUsing
             THEN << Violation("validate-using", MsgUsesRequest, a.line, "error") >>
             ELSE << >>)
            \o (IF a.usesParams /\ ~a.hasValidateUsing
                THEN << Violation("validate-using", MsgUsesParams, a.line, "warning") >>
                ELSE << >>)
            \o checkSuccessResponse(a)
            \o checkErrorResponse(a)
    IN  [ controller |-> a.controller,
          method |-> a.method,
          filePath |-> a.filePath,
          line |-> a.line,
          violations |-> violations,
          passed |-> Len(violations) = 0 ]

\* faulty variant: a method passes when it has no violation of severity error
validateMethodWarningsPass(a) ==
    LET validateUsingViolation == checkValidateUsing(a)
        violations ==
            (IF validateUsingViolation # Null THEN << validateUsingViolation >> ELSE << >>)
            \o checkSuccessResponse(a)
            \o checkErrorResponse(a)
    IN  [ controller |-> a.controller,
          method |-> a.method,
          filePath |-> a.filePath,
          line |-> a.line,
          violations |-> violations,
          passed |-> \A i \in 1..Len(violations) : violations[i].severity # "error" ]

\* faulty variant: the errorResponse violations are pushed before the
\* successResponse violations
validateMethodErrorsFirst(a) ==
    LET validateUsingViolation == checkValidateUsing(a)
        violations ==
            (IF validateUsingViolation # Null THEN << validateUsingViolation >> ELSE << >>)
            \o checkErrorResponse(a)
            \o checkSuccessResponse(a)
    IN  [ controller |-> a.controller,
          method |-> a.method,
          filePath |-> a.filePath,
          line |-> a.line,
          violations |-> violations,
          passed |-> Len(violations) = 0 ]

validateMethod(a) ==
    LET validateUsingViolation == checkValidateUsing(a)
        violations ==
            (IF validateUsingViolation # Null THEN << validateUsingViolation >> ELSE << >>)
            \o checkSuccessResponse(a)
            \o checkErrorResponse(a)
    IN  [ controller |-> a.controller,
          method |-> a.method,
          filePath |-> a.filePath,
          line |-> a.line,
          violations |-> violations,
          passed |-> Len(violations) = 0 ]

----------------------------------------------------------------------------
(* Routes: src/parsers/route-parser.ts *)

\* controller names as they stand in the routes file
Widget == << "W", "i", "d", "g", "e", "t" >>
widgetAlias == << "w", "i", "d", "g", "e", "t" >>
MyApi == << "M", "y", "A", "p", "i" >>

ControllerNames == { Widget, widgetAlias, MyApi }

\* handler names
show == << "s", "h", "o", "w" >>
store == << "s", "t", "o", "r", "e" >>

HandlerNames == { show, store }

\* the RouteDefinition parseRouteCall returns for router.<verb>(path, [controller, handler])
\* on source line `line`; the routes file registers show as GET /x/:id and
\* store as POST /x
RouteDefinition(controller, handler, line) ==
    [ method |-> IF handler = show THEN "get" ELSE "post",
      path |-> IF handler = show THEN "/x/:id" ELSE "/x",
      controller |-> controller,
      handler |-> handler,
      line |-> line,
      hasPathParams |-> handler = show,
      pathParams |-> IF handler = show THEN << "id" >> ELSE << >> ]

\* the route lists parseRoutes can return: one route per source line
\* a route of another controller between two routes of one controller
InterleavedRoutes ==
    << RouteDefinition(Widget, show, 1), RouteDefinition(MyApi, store, 2),
       RouteDefinition(Widget, store, 3) >>

RouteLists ==
    { [ i \in 1..k |-> RouteDefinition(cs[i], hs[i], i) ] :
        k \in 0..MaxRoutes, cs \in [1..MaxRoutes -> ControllerNames],
        hs \in [1..MaxRoutes -> HandlerNames] }
    \cup { InterleavedRoutes }

\* index of the Map entry with key k, 0 when there is none
EntryIndex(entries, k) ==
    IF \E i \in 1..Len(entries) : entries[i].key = k
    THEN CHOOSE i \in 1..Len(entries) : entries[i].key = k
    ELSE 0

\* Map.prototype.set on a Map kept as its entries in insertion order
MapSet(entries, k, v) ==
    LET i == EntryIndex(entries, k)
    IN  IF i = 0 THEN Append(entries, [ key |-> k, value |-> v ])
        ELSE [ entries EXCEPT ![i].value = v ]

\* Map.prototype.get(k) || []
MapGetOrEmpty(entries, k) ==
    LET i == EntryIndex(entries, k)
    IN  IF i = 0 THEN << >> ELSE entries[i].value

RECURSIVE groupInto(_, _)
groupInto(grouped, rs) ==
    IF rs = << >> THEN grouped
    ELSE LET route == Head(rs)
             existing == MapGetOrEmpty(grouped, route.controller)
         IN  groupInto(MapSet(grouped, route.controller, Append(existing, route)), Tail(rs))

\* faulty variant: a route is put at the head of its controller's list
RECURSIVE groupIntoPrepending(_, _)
groupIntoPrepending(grouped, rs) ==
    IF rs = << >> THEN grouped
    ELSE groupIntoPrepending(
             MapSet(grouped, Head(rs).controller,
                    << Head(rs) >> \o MapGetOrEmpty(grouped, Head(rs).controller)),
             Tail(rs))

groupRoutesByControllerPrepending(rs) == groupIntoPrepending(<< >>, rs)

\* faulty variant: the controllers come out last seen first
groupRoutesByControllerLastFirst(rs) ==
    LET grouped == groupInto(<< >>, rs)
    IN  [ i \in 1..Len(grouped) |-> grouped[Len(grouped) + 1 - i] ]

groupRoutesByController(rs) == groupInto(<< >>, rs)

----------------------------------------------------------------------------
(* Controller files *)

UpperChars == << "A", "B", "C", "D", "E", "F", "G", "H", "I", "J", "K", "L", "M",
                 "N", "O", "P", "Q", "R", "S", "T", "U", "V", "W", "X", "Y", "Z" >>

LowerChars == << "a", "b", "c", "d", "e", "f", "g", "h", "i", "j", "k", "l", "m",
                 "n", "o", "p", "q", "r", "s", "t", "u", "v", "w", "x", "y", "z" >>

IsUpper(c) == c \in Range(UpperChars)

IsLower(c) == c \in Range(LowerChars)

\* String.prototype.toLowerCase, one character
ToLowerChar(c) ==
    IF IsUpper(c) THEN LowerChars[CHOOSE i \in 1..Len(UpperChars) : UpperChars[i] = c]
    ELSE c

ToLowerCase(s) == [ i \in 1..Len(s) |-> ToLowerChar(s[i]) ]

\* s.replace(/([a-z])([A-Z])/g, "$1_$2"): matches are taken left to right and
\* do not overlap
RECURSIVE InsertUnderscores(_)
InsertUnderscores(s) ==
    IF Len(s) < 2 THEN s
    ELSE IF IsLower(s[1]) /\ IsUpper(s[2])
         THEN << s[1], "_", s[2] >> \o InsertUnderscores(SubSeq(s, 3, Len(s)))
         ELSE << s[1] >> \o InsertUnderscores(Tail(s))

\* path.join(projectPath, config.controllersDir), with its trailing separator
ControllersDirPath(controllersDir) == << "/project/", controllersDir, "/" >>

\* faulty variant: an underscore goes before every uppercase letter but the first
RECURSIVE UnderscoreEveryUpper(_)
UnderscoreEveryUpper(s) ==
    IF Len(s) < 2 THEN s
    ELSE IF IsUpper(s[2])
         THEN << s[1], "_" >> \o UnderscoreEveryUpper(Tail(s))
         ELSE << s[1] >> \o UnderscoreEveryUpper(Tail(s))

resolveControllerPathEveryUpper(controllersDir, controllerName) ==
    ControllersDirPath(controllersDir) \o ToLowerCase(UnderscoreEveryUpper(controllerName))
        \o << ".ts" >>

resolveControllerPath(controllersDir, controllerName) ==
    LET fileName == ToLowerCase(InsertUnderscores(controllerName))
    IN  ControllersDirPath(controllersDir) \o fileName \o << ".ts" >>

\* a method of a controller class, as the facts analyzeMethod reads off it
MethodDecl(name, line, usesRequest, usesParams, hasValidateUsing, returnStatements) ==
    [ name |-> name, line |-> line, usesRequest |-> usesRequest, usesParams |-> usesParams,
      hasValidateUsing |-> hasValidateUsing, returnStatements |-> returnStatements ]

\* takes route params only, validates nothing, returns a typed success
WarnOnlyShow ==
    MethodDecl(show, 10, FALSE, TRUE, FALSE,
               << ReturnStatement(12, "successResponse", TRUE, TextOfLen(3)) >>)

\* the same method returning an untyped success
UntypedShow ==
    MethodDecl(show, 10, FALSE, TRUE, FALSE,
               << ReturnStatement(12, "successResponse", FALSE, TextOfLen(3)) >>)

\* violates every rule
BadStore ==
    MethodDecl(store, 20, TRUE, TRUE, FALSE,
               << ReturnStatement(22, "successResponse", FALSE, TextOfLen(3)),
                  ReturnStatement(24, "errorResponse", FALSE, TextOfLen(52)) >>)

\* violates no rule
CleanStore ==
    MethodDecl(store, 20, TRUE, FALSE, TRUE,
               << ReturnStatement(22, "errorResponse", TRUE, TextOfLen(3)),
                  ReturnStatement(24, "successResponse", TRUE, TextOfLen(3)) >>)

Missing == [ exists |-> FALSE ]

\* a path that exists but that the analyzer's project cannot load (a directory
\* named like the controller file, a file without read permission)
Unreadable == [ exists |-> TRUE, readable |-> FALSE ]

\* a controller file: whether it has a default-exported class, that class's
\* name (Undefined for an anonymous class) and its methods
ControllerFile(hasDefaultClass, className, methods) ==
    [ exists |-> TRUE, readable |-> TRUE, hasDefaultClass |-> hasDefaultClass,
      className |-> className, methods |-> methods ]

\* what may stand at widget.ts: a full controller, an anonymous default class,
\* a file with no default-exported class, a path that cannot be loaded, or
\* nothing
WidgetFiles ==
    { ControllerFile(TRUE, { Widget }, << WarnOnlyShow, BadStore >>),
      ControllerFile(TRUE, Undefined, << UntypedShow, CleanStore >>),
      ControllerFile(FALSE, Undefined, << >>),
      Unreadable,
      Missing }

\* what may stand at my_api.ts: a controller with no show method, or nothing
MyApiFiles ==
    { ControllerFile(TRUE, { MyApi }, << CleanStore >>),
      Missing }

ControllersDir == "app/controllers"

ControllerPaths == { resolveControllerPath(ControllersDir, c) : c \in ControllerNames }

WidgetPath == resolveControllerPath(ControllersDir, Widget)
MyApiPath == resolveControllerPath(ControllersDir, MyApi)

Projects ==
    { [ p \in ControllerPaths |-> IF p = WidgetPath THEN w ELSE m ] :
        w \in WidgetFiles, m \in MyApiFiles }

\* fs.existsSync
existsSync(proj, path) == path \in DOMAIN proj /\ proj[path].exists

\* whether project.addSourceFileAtPath(controllerPath) returns, for an existing path
canLoad(proj, path) == proj[path].readable

analyzeMethod(decl, className, filePath) ==
    MethodAnalysisOf(className, decl.name, filePath, decl.line, decl.usesRequest,
                     decl.usesParams, decl.hasValidateUsing, decl.returnStatements)

RECURSIVE analyzeMethods(_, _, _, _)
analyzeMethods(found, decls, className, filePath) ==
    IF decls = << >> THEN found
    ELSE analyzeMethods(MapSet(found, Head(decls).name,
                               analyzeMethod(Head(decls), className, filePath)),
                        Tail(decls), className, filePath)

\* the Map analyzeController returns for an existing file
analyzeController(proj, controllerPath) ==
    LET file == proj[controllerPath]
        className == IF file.className = Undefined THEN << "UnknownController" >>
                     ELSE CHOOSE n \in file.className : TRUE
    IN  IF ~file.hasDefaultClass THEN << >>
        ELSE analyzeMethods(<< >>, file.methods, className, controllerPath)

----------------------------------------------------------------------------
(* Configuration: DEFAULT_CONFIG and the whitelists the runs are tried with *)

methodKeyOf(controllerName, handler) == controllerName \o << "." >> \o handler

\* no whitelist, or one naming a method that breaks every rule (Widget.store)
\* and a method its controller does not have (MyApi.show)
WhitelistSamples ==
    { << >>,
      << methodKeyOf(Widget, store), methodKeyOf(MyApi, show) >> }

ValidatorConfig(whitelist, failOnError) ==
    [ routesFile |-> "start/routes.ts",
      controllersDir |-> ControllersDir,
      whitelist |-> whitelist,
      strictMode |-> TRUE,
      failOnError |-> failOnError,
      appErrorsPath |-> "#lib/errors" ]

\* Array.prototype.includes
Includes(arr, x) == x \in Range(arr)

\* faulty variant: the whitelist is never consulted
isWhitelistedNever(cfg, methodKey) == FALSE

\* faulty variant: the whitelist is honoured outside strict mode only
isWhitelistedUnlessStrict(cfg, methodKey) ==
    ~cfg.strictMode /\ Includes(cfg.whitelist, methodKey)

\* runValidation's test of a route's key against config.whitelist
isWhitelisted(cfg, methodKey) == Includes(cfg.whitelist, methodKey)

----------------------------------------------------------------------------
(* Run orchestrator: runValidation, and the entry points around it *)

NoSummary == [ none |-> TRUE ]
\* the exit status is Undefined while the process runs, { status } once it ended
NoExit == Undefined
NoAnalysis == [ none |-> TRUE ]
NoCall == [ fn |-> "none" ]
NoInput == [ none |-> TRUE ]

RECURSIVE FilterPassed(_, _)
\* results.filter((r) => r.passed === want)
FilterPassed(rs, want) ==
    IF rs = << >> THEN << >>
    ELSE (IF Head(rs).passed = want THEN << Head(rs) >> ELSE << >>)
         \o FilterPassed(Tail(rs), want)

\* faulty variant: failedMethods counts violations instead of failed methods
RunResultCountingViolations(rs) ==
    LET violations == FilterPassed(rs, FALSE)
        Count[i \in 0..Len(rs)] ==
            IF i = 0 THEN 0 ELSE Count[i - 1] + Len(rs[i].violations)
    IN  [ totalMethods |-> Len(rs),
          passedMethods |-> Len(FilterPassed(rs, TRUE)),
          failedMethods |-> Count[Len(rs)],
          results |-> rs,
          violations |-> violations ]

\* faulty variant: the failed verdicts are listed last first
RunResultViolationsReversed(rs) ==
    LET failed == FilterPassed(rs, FALSE)
        violations == [ i \in 1..Len(failed) |-> failed[Len(failed) + 1 - i] ]
    IN  [ totalMethods |-> Len(rs),
          passedMethods |-> Len(FilterPassed(rs, TRUE)),
          failedMethods |-> Len(violations),
          results |-> rs,
          violations |-> violations ]

RunResult(rs) ==
    LET violations == FilterPassed(rs, FALSE)
    IN  [ totalMethods |-> Len(rs),
          passedMethods |-> Len(FilterPassed(rs, TRUE)),
          failedMethods |-> Len(violations),
          results |-> rs,
          violations |-> violations ]

\* faulty variant: only a failed method with an error-severity violation makes
\* the process exit with 1
cliExitStatusErrorsOnly(cfg, result) ==
    IF /\ cfg.failOnError
       /\ \E i \in 1..Len(result.violations) :
             \E j \in 1..Len(result.violations[i].violations) :
                 result.violations[i].violations[j].severity = "error"
    THEN 1 ELSE 0

\* src/cli.ts: process.exit(1) when failOnError and a method failed, else the
\* process ends normally
cliExitStatus(cfg, result) ==
    IF cfg.failOnError /\ result.failedMethods > 0 THEN 1 ELSE 0

\* faulty variant: the Ace command looks at its flag only, not at config.failOnError
aceExitStatusFlagOnly(cfg, noFailFlag, result) ==
    IF ~noFailFlag /\ result.failedMethods > 0 THEN 1 ELSE 0

\* the Ace command: this.exitCode = 1 under the same test and without noFail
aceExitStatus(cfg, noFailFlag, result) ==
    IF cfg.failOnError /\ ~noFailFlag /\ result.failedMethods > 0 THEN 1 ELSE 0

Init ==
    /\ entry \in { "cli", "ace" }
    /\ config \in { ValidatorConfig(w, f) : w \in WhitelistSamples, f \in BOOLEAN }
    /\ noFail \in (IF entry = "ace" THEN BOOLEAN ELSE { FALSE })
    /\ routesFileReadable \in BOOLEAN
    /\ routes \in (IF routesFileReadable THEN RouteLists ELSE { << >> })
    /\ project \in Projects
    /\ pc = "start"
    /\ routesByController = << >>
    /\ ci = 0
    /\ ri = 0
    /\ methodAnalyses = << >>
    /\ results = << >>
    /\ summary = NoSummary
    /\ exitCode = NoExit
    /\ printed = << >>
    /\ validated = << >>
    /\ analyzed = << >>
    /\ warnings = << >>
    /\ analysis = NoAnalysis
    /\ call = NoCall
    /\ input = NoInput

inputVars == << entry, config, noFail, routesFileReadable, routes, project >>

\* the Map entry and the path the outer loop is at
CurrentEntry == routesByController[ci]
CurrentPath == resolveControllerPath(config.controllersDir, CurrentEntry.key)
CurrentRoute == CurrentEntry.value[ri]
CurrentKey == methodKeyOf(CurrentEntry.key, CurrentRoute.handler)

\* faulty variant: a routes file that cannot be loaded counts as one with no route
ParseRoutesYieldsNoRoute ==
    /\ pc = "start"
    /\ ~routesFileReadable
    /\ routesByController' = << >>
    /\ results' = << >>
    /\ ci' = 1
    /\ pc' = "controllers"
    /\ UNCHANGED << inputVars, ri, methodAnalyses, summary, exitCode, validated,
                    analyzed, warnings, printed, ruleVars >>

\* parseRoutes cannot load the project's tsconfig or its routes file: the
\* exception leaves runValidation, which catches nothing
ParseRoutesThrows ==
    /\ pc = "start"
    /\ ~routesFileReadable
    /\ pc' = "threw"
    /\ UNCHANGED << inputVars, routesByController, ci, ri, methodAnalyses, results,
                    summary, exitCode, printed, validated, analyzed, warnings,
                    ruleVars >>

\* runValidation is entered: routes are parsed and grouped, results is empty
RunValidationBegin ==
    /\ pc = "start"
    /\ routesFileReadable
    /\ routesByController' = groupRoutesByController(routes)
    /\ results' = << >>
    /\ ci' = 1
    /\ pc' = "controllers"
    /\ UNCHANGED << inputVars, ri, methodAnalyses, summary, exitCode, validated,
                    analyzed, warnings, printed,
                    ruleVars >>

\* faulty variant: a missing controller file ends the loop over the controllers
ControllerNotFoundEndsLoop ==
    /\ pc = "controllers"
    /\ ci <= Len(routesByController)
    /\ ~existsSync(project, CurrentPath)
    /\ warnings' = Append(warnings, << "Controller not found: " >> \o CurrentPath)
    /\ ci' = Len(routesByController) + 1
    /\ UNCHANGED << inputVars, pc, routesByController, ri, methodAnalyses, results,
                    summary, exitCode, validated, analyzed, printed, ruleVars >>

\* the controller's file does not exist: warn and continue with the next one
ControllerNotFound ==
    /\ pc = "controllers"
    /\ ci <= Len(routesByController)
    /\ ~existsSync(project, CurrentPath)
    /\ warnings' = Append(warnings, << "Controller not found: " >> \o CurrentPath)
    /\ ci' = ci + 1
    /\ UNCHANGED << inputVars, pc, routesByController, ri, methodAnalyses, results,
                    summary, exitCode, validated, analyzed, printed,
                    ruleVars >>

\* the controller's file exists: analyze it and enter the loop over its routes
AnalyzeController ==
    /\ pc = "controllers"
    /\ ci <= Len(routesByController)
    /\ existsSync(project, CurrentPath)
    /\ canLoad(project, CurrentPath)
    /\ methodAnalyses' = analyzeController(project, CurrentPath)
    /\ analyzed' = Append(analyzed, CurrentPath)
    /\ ri' = 1
    /\ pc' = "routes"
    /\ UNCHANGED << inputVars, routesByController, ci, results, summary, exitCode,
                    validated, warnings, printed,
                    ruleVars >>

\* the controller's path exists but analyzeController's project cannot load it:
\* addSourceFileAtPath throws, and the exception leaves runValidation
AnalyzeControllerThrows ==
    /\ pc = "controllers"
    /\ ci <= Len(routesByController)
    /\ existsSync(project, CurrentPath)
    /\ ~canLoad(project, CurrentPath)
    /\ pc' = "threw"
    /\ UNCHANGED << inputVars, routesByController, ci, ri, methodAnalyses, results,
                    summary, exitCode, printed, validated, analyzed, warnings,
                    ruleVars >>

SkipWhitelisted ==
    /\ pc = "routes"
    /\ ri <= Len(CurrentEntry.value)
    /\ isWhitelisted(config, CurrentKey)
    /\ ri' = ri + 1
    /\ UNCHANGED << inputVars, pc, routesByController, ci, methodAnalyses, results,
                    summary, exitCode, validated, analyzed, warnings, printed,
                    ruleVars >>

\* faulty variant: a missing method ends the loop over the controller's routes
MethodNotFoundEndsLoop ==
    /\ pc = "routes"
    /\ ri <= Len(CurrentEntry.value)
    /\ ~isWhitelisted(config, CurrentKey)
    /\ EntryIndex(methodAnalyses, CurrentRoute.handler) = 0
    /\ warnings' = Append(warnings, << "Method not found: " >> \o CurrentKey)
    /\ ri' = Len(CurrentEntry.value) + 1
    /\ UNCHANGED << inputVars, pc, routesByController, ci, methodAnalyses, results,
                    summary, exitCode, validated, analyzed, printed, ruleVars >>

\* faulty variant: the handler is looked up without asking the whitelist first
MethodNotFoundBeforeWhitelist ==
    /\ pc = "routes"
    /\ ri <= Len(CurrentEntry.value)
    /\ EntryIndex(methodAnalyses, CurrentRoute.handler) = 0
    /\ warnings' = Append(warnings, << "Method not found: " >> \o CurrentKey)
    /\ ri' = ri + 1
    /\ UNCHANGED << inputVars, pc, routesByController, ci, methodAnalyses, results,
                    summary, exitCode, validated, analyzed, printed, ruleVars >>

MethodNotFound ==
    /\ pc = "routes"
    /\ ri <= Len(CurrentEntry.value)
    /\ ~isWhitelisted(config, CurrentKey)
    /\ EntryIndex(methodAnalyses, CurrentRoute.handler) = 0
    /\ warnings' = Append(warnings, << "Method not found: " >> \o CurrentKey)
    /\ ri' = ri + 1
    /\ UNCHANGED << inputVars, pc, routesByController, ci, methodAnalyses, results,
                    summary, exitCode, validated, analyzed, printed,
                    ruleVars >>

ValidateRoute ==
    /\ pc = "routes"
    /\ ri <= Len(CurrentEntry.value)
    /\ ~isWhitelisted(config, CurrentKey)
    /\ EntryIndex(methodAnalyses, CurrentRoute.handler) # 0
    /\ LET found == methodAnalyses[EntryIndex(methodAnalyses, CurrentRoute.handler)].value
       IN  results' = Append(results, validateMethod(found))
    /\ validated' = Append(validated, CurrentRoute)
    /\ ri' = ri + 1
    /\ UNCHANGED << inputVars, pc, routesByController, ci, methodAnalyses, summary,
                    exitCode, analyzed, warnings, printed,
                    ruleVars >>

\* the inner loop is over: on to the next controller
ControllerDone ==
    /\ pc = "routes"
    /\ ri > Len(CurrentEntry.value)
    /\ ci' = ci + 1
    /\ pc' = "controllers"
    /\ UNCHANGED << inputVars, routesByController, ri, methodAnalyses, results,
                    summary, exitCode, validated, analyzed, warnings, printed,
                    ruleVars >>

\* the outer loop is over: the summary is computed and returned
RunValidationReturn ==
    /\ pc = "controllers"
    /\ ci > Len(routesByController)
    /\ summary' = RunResult(results)
    /\ pc' = "returned"
    /\ UNCHANGED << inputVars, routesByController, ci, ri, methodAnalyses, results,
                    exitCode, validated, analyzed, warnings, printed,
                    ruleVars >>

\* src/cli.ts: the action prints the result and exits
CliExit ==
    /\ pc = "returned"
    /\ entry = "cli"
    /\ printed' = Append(printed, [ summary |-> summary ])
    /\ exitCode' = { cliExitStatus(config, summary) }
    /\ pc' = "exited"
    /\ UNCHANGED << inputVars, routesByController, ci, ri, methodAnalyses, results,
                    summary, validated, analyzed, warnings, ruleVars >>

\* the Ace command: run() prints the result and sets this.exitCode
AceExit ==
    /\ pc = "returned"
    /\ entry = "ace"
    /\ printed' = Append(printed, [ summary |-> summary ])
    /\ exitCode' = { aceExitStatus(config, noFail, summary) }
    /\ pc' = "exited"
    /\ UNCHANGED << inputVars, routesByController, ci, ri, methodAnalyses, results,
                    summary, validated, analyzed, warnings, ruleVars >>

\* src/cli.ts: the exception rejects the promise of the async action, which
\* program.parse() leaves unhandled; Node prints the error and ends the
\* process with status 1
CliUnhandledRejection ==
    /\ pc = "threw"
    /\ entry = "cli"
    /\ printed' = Append(printed, [ error |-> "Uncaught" ])
    /\ exitCode' = { 1 }
    /\ pc' = "failed"
    /\ UNCHANGED << inputVars, routesByController, ci, ri, methodAnalyses, results,
                    summary, validated, analyzed, warnings, ruleVars >>

\* the Ace command: run() catches the exception, logs it and sets this.exitCode
AceCatch ==
    /\ pc = "threw"
    /\ entry = "ace"
    /\ printed' = Append(printed, [ error |-> "Validation failed:" ])
    /\ exitCode' = { 1 }
    /\ pc' = "failed"
    /\ UNCHANGED << inputVars, routesByController, ci, ri, methodAnalyses, results,
                    summary, validated, analyzed, warnings, ruleVars >>

Next ==
    \/ ParseRoutesThrows
    \/ RunValidationBegin
    \/ ControllerNotFound
    \/ AnalyzeController
    \/ AnalyzeControllerThrows
    \/ SkipWhitelisted
    \/ MethodNotFound
    \/ ValidateRoute
    \/ ControllerDone
    \/ RunValidationReturn
    \/ CliExit
    \/ AceExit
    \/ CliUnhandledRejection
    \/ AceCatch

Spec == Init /\ [][Next]_vars

----------------------------------------------------------------------------
(* The rule engine on its own: one MethodAnalysis, one function applied *)

InitRules ==
    /\ analysis \in MethodAnalyses
    /\ call = NoCall
    /\ entry = "none"
    /\ config = ValidatorConfig(<< >>, TRUE)
    /\ noFail = FALSE
    /\ routesFileReadable = TRUE
    /\ routes = << >>
    /\ project = [ p \in ControllerPaths |-> Missing ]
    /\ pc = "rules"
    /\ routesByController = << >>
    /\ ci = 0
    /\ ri = 0
    /\ methodAnalyses = << >>
    /\ results = << >>
    /\ summary = NoSummary
    /\ exitCode = NoExit
    /\ printed = << >>
    /\ validated = << >>
    /\ analyzed = << >>
    /\ warnings = << >>
    /\ input = NoInput

CallCheckValidateUsing ==
    /\ pc = "rules"
    /\ call = NoCall
    /\ call' = [ fn |-> "checkValidateUsing", result |-> checkValidateUsing(analysis) ]
    /\ UNCHANGED << analysis, input, runVars >>

CallCheckSuccessResponse ==
    /\ pc = "rules"
    /\ call = NoCall
    /\ call' = [ fn |-> "checkSuccessResponse", result |-> checkSuccessResponse(analysis) ]
    /\ UNCHANGED << analysis, input, runVars >>

CallCheckErrorResponse ==
    /\ pc = "rules"
    /\ call = NoCall
    /\ call' = [ fn |-> "checkErrorResponse", result |-> checkErrorResponse(analysis) ]
    /\ UNCHANGED << analysis, input, runVars >>

CallValidateMethod ==
    /\ pc = "rules"
    /\ call = NoCall
    /\ call' = [ fn |-> "validateMethod", result |-> validateMethod(analysis) ]
    /\ UNCHANGED << analysis, input, runVars >>

NextRules ==
    \/ CallCheckValidateUsing
    \/ CallCheckSuccessResponse
    \/ CallCheckErrorResponse
    \/ CallValidateMethod

SpecRules == InitRules /\ [][NextRules]_vars

\* runs and single applications of the rule engine side by side
InitAll == Init \/ InitRules

NextAll == Next \/ NextRules

SpecAll == InitAll /\ [][NextAll]_vars

----------------------------------------------------------------------------
(* Properties of a run (specification Spec) *)

Returned == pc \in { "returned", "exited" }

\* C1: the summary a run returns has totalMethods = passedMethods +
\* failedMethods = the length of its results list, which is the results array
SummaryCountsAgree ==
    Returned =>
        /\ summary.totalMethods = summary.passedMethods + summary.failedMethods
        /\ summary.totalMethods = Len(summary.results)
        /\ summary.results = results

\* a run returned a summary counting a passed and a failed method
SummaryWithPassedAndFailed ==
    /\ Returned
    /\ summary.passedMethods > 0
    /\ summary.failedMethods > 0

\* the project of the end-to-end scenario: the one route GET /x/:id to
\* [Widget, "show"], show taking route params only, validating nothing and
\* returning one typed success, and no whitelist
WarningOnlyScenario ==
    /\ routes = << RouteDefinition(Widget, show, 1) >>
    /\ routes[1].method = "get" /\ routes[1].path = "/x/:id"
    /\ existsSync(project, WidgetPath)
    /\ project[WidgetPath].hasDefaultClass
    /\ WarnOnlyShow \in Range(project[WidgetPath].methods)
    /\ config.whitelist = << >>

\* C2: in the end-to-end scenario the run yields totalMethods = 1 and
\* failedMethods = 0 while the one verdict carries exactly one violation, of
\* the request-validation rule and of warning severity
WarningOnlyRunHasNoFailedMethod ==
    (Returned /\ WarningOnlyScenario) =>
        /\ summary.totalMethods = 1
        /\ summary.failedMethods = 0
        /\ Len(summary.results) = 1
        /\ Len(summary.results[1].violations) = 1
        /\ summary.results[1].violations[1].rule = "validate-using"
        /\ summary.results[1].violations[1].severity = "warning"

\* C3: no verdict is ever pushed for a route whose key
\* "<controller>.<handler>" is in config.whitelist
WhitelistedRouteNeverValidated ==
    /\ Len(validated) = Len(results)
    /\ \A i \in 1..Len(validated) :
          ~Includes(config.whitelist, methodKeyOf(validated[i].controller, validated[i].handler))

\* a run is over in which a whitelisted route named a method that exists in
\* its controller's file and breaks every rule, and another route was validated
WhitelistedBadMethodSkipped ==
    /\ Returned
    /\ \E i \in 1..Len(routes) :
          /\ Includes(config.whitelist, methodKeyOf(routes[i].controller, routes[i].handler))
          /\ routes[i].controller = Widget /\ routes[i].handler = store
          /\ existsSync(project, WidgetPath)
          /\ project[WidgetPath].hasDefaultClass
          /\ BadStore \in Range(project[WidgetPath].methods)
    /\ Len(results) > 0

\* C4: validateMethod is applied at most once to a (controller, handler)
\* pair: the results never hold two verdicts pushed for routes that name the
\* same [Controller, "method"]
NoMethodValidatedTwice ==
    \A i \in 1..Len(validated) : \A j \in 1..Len(validated) :
        i < j =>
            ~(/\ validated[i].controller = validated[j].controller
              /\ validated[i].handler = validated[j].handler)

\* C5: analyzeController is called at most once per resolved controller path
NoFileAnalyzedTwice ==
    \A i \in 1..Len(analyzed) : \A j \in 1..Len(analyzed) :
        i < j => analyzed[i] # analyzed[j]

\* C6 as stated: once the entry point has ended, the exit status is 0 if
\* config.failOnError is false or failedMethods = 0, and non-zero otherwise
ExitStatusByConfigAlone ==
    pc = "exited" =>
        (exitCode = { 0 }) = (~config.failOnError \/ summary.failedMethods = 0)

\* C6 as amended: the exit status is 0 if config.failOnError is false, or the
\* entry point is the Ace command and its noFail flag is set, or
\* failedMethods = 0; it is 1 otherwise
ExitStatusByConfigAndFlag ==
    pc = "exited" =>
        /\ exitCode \in { { 0 }, { 1 } }
        /\ (exitCode = { 0 }) =
              \/ ~config.failOnError
              \/ (entry = "ace" /\ noFail)
              \/ summary.failedMethods = 0

\* each entry point has ended a run with failed methods under failOnError:
\* here the Ace command with noFail set, which ends with status 0
AceNoFailExitsZero ==
    /\ pc = "exited"
    /\ entry = "ace"
    /\ noFail
    /\ config.failOnError
    /\ summary.failedMethods > 0
    /\ exitCode = { 0 }

----------------------------------------------------------------------------
(* Properties of the rule engine (specification SpecRules) *)

IsRequestValidationViolation(v, severity) ==
    /\ v # Null
    /\ v.rule = "validate-using"
    /\ v.severity = severity
    /\ v.line = analysis.line

\* C7: for a method with usesRequest and without hasValidateUsing,
\* checkValidateUsing yields one violation, of rule validate-using and
\* severity error, whatever usesParams and the returns are; for a method with
\* usesRequest and hasValidateUsing it yields none
RequestWithoutValidationIsError ==
    (call.fn = "checkValidateUsing" /\ analysis.usesRequest) =>
        IF analysis.hasValidateUsing
        THEN call.result = Null
        ELSE IsRequestValidationViolation(call.result, "error")

\* checkValidateUsing gave the error for a method that also uses params
ErrorBranchTakenWithParams ==
    /\ call.fn = "checkValidateUsing"
    /\ analysis.usesRequest /\ analysis.usesParams /\ ~analysis.hasValidateUsing
    /\ analysis.returnStatements # << >>
    /\ IsRequestValidationViolation(call.result, "error")

\* C8: for a method with usesParams, without usesRequest and without
\* hasValidateUsing, checkValidateUsing yields one violation of severity
\* warning citing the method's declaration line; for every combination of the
\* flags that is neither this one nor the error branch it yields none
ParamsWithoutValidationIsWarning ==
    (call.fn = "checkValidateUsing") =>
        LET errorBranch == analysis.usesRequest /\ ~analysis.hasValidateUsing
            warningBranch == /\ analysis.usesParams
                             /\ ~analysis.usesRequest
                             /\ ~analysis.hasValidateUsing
        IN  /\ warningBranch => IsRequestValidationViolation(call.result, "warning")
            /\ (~warningBranch /\ ~errorBranch) => call.result = Null

\* checkValidateUsing gave the warning, citing declaration line 2
WarningBranchTaken ==
    /\ call.fn = "checkValidateUsing"
    /\ analysis.usesParams /\ ~analysis.usesRequest /\ ~analysis.hasValidateUsing
    /\ analysis.line = 2
    /\ IsRequestValidationViolation(call.result, "warning")

\* the violations of a verdict that come from the request-validation rule
RequestValidationIndexes(verdict) ==
    { i \in 1..Len(verdict.violations) : verdict.violations[i].rule = "validate-using" }

\* C9: a verdict of validateMethod holds at most one violation of the
\* request-validation rule, hence never both its error and its warning
AtMostOneRequestValidationViolation ==
    (call.fn = "validateMethod") =>
        LET idx == RequestValidationIndexes(call.result)
        IN  /\ Cardinality(idx) <= 1
            /\ ~(/\ \E i \in idx : call.result.violations[i].severity = "error"
                 /\ \E i \in idx : call.result.violations[i].severity = "warning")

\* validateMethod judged a method that uses request and params and validates
\* nothing: its verdict holds the error alone
BothFlagsGiveOneViolation ==
    /\ call.fn = "validateMethod"
    /\ analysis.usesRequest /\ analysis.usesParams /\ ~analysis.hasValidateUsing
    /\ Cardinality(RequestValidationIndexes(call.result)) = 1
    /\ call.result.violations[1].severity = "error"

\* the indexes of the returns that are a successResponse whose hasGenericType is false
UntypedSuccessIndexes ==
    { i \in 1..Len(analysis.returnStatements) :
        /\ analysis.returnStatements[i].type = "successResponse"
        /\ analysis.returnStatements[i].hasGenericType = { FALSE } }

\* C10: checkSuccessResponse yields one violation of severity error per
\* return that is a successResponse with hasGenericType false, citing that
\* return's line, in the order of the returns, and nothing else
OneViolationPerUntypedSuccess ==
    (call.fn = "checkSuccessResponse") =>
        /\ Len(call.result) = Cardinality(UntypedSuccessIndexes)
        /\ \A i \in UntypedSuccessIndexes :
              LET k == Cardinality({ j \in UntypedSuccessIndexes : j <= i })
              IN  /\ call.result[k].rule = "success-response-typed"
                  /\ call.result[k].severity = "error"
                  /\ call.result[k].line = analysis.returnStatements[i].line

\* checkSuccessResponse reported two untyped successes of one method, each
\* on its own line
TwoUntypedSuccessesReported ==
    /\ call.fn = "checkSuccessResponse"
    /\ UntypedSuccessIndexes = { 1, 2 }
    /\ Len(call.result) = 2
    /\ call.result[1].line = analysis.returnStatements[1].line
    /\ call.result[2].line = analysis.returnStatements[2].line
    /\ call.result[1].line # call.result[2].line

----------------------------------------------------------------------------
(* Properties of the catalog-error rule (specification SpecRules) *)

\* s holds t as a run of consecutive elements
Contains(s, t) ==
    \E k \in 0..(Len(s) - Len(t)) : SubSeq(s, k + 1, k + Len(t)) = t

\* the indexes of the returns that are an errorResponse whose usesAppErrors is false
NonCatalogErrorIndexes ==
    { i \in 1..Len(analysis.returnStatements) :
        /\ analysis.returnStatements[i].type = "errorResponse"
        /\ analysis.returnStatements[i].usesAppErrors = { FALSE } }

\* the k-th violation is an error of the catalog-error rule on the line of return i
CitesReturn(k, i) ==
    /\ call.result[k].rule = "error-response-app-errors"
    /\ call.result[k].severity = "error"
    /\ call.result[k].line = analysis.returnStatements[i].line

\* what a message of the catalog-error rule quotes: the part after the prefix
\* and before the three dots
ExcerptOf(message) ==
    SubSeq(message, Len(MsgErrorPrefix) + 1, Len(message) - Len(Ellipsis))

\* C11 as stated: checkErrorResponse yields one error violation per
\* errorResponse return with usesAppErrors false, citing that return's line,
\* whose message holds the first 50 characters of the return's text, and never
\* holds the whole text when the text is longer than 50 characters
LongTextNeverWholeInMessage ==
    (call.fn = "checkErrorResponse") =>
        /\ Len(call.result) = Cardinality(NonCatalogErrorIndexes)
        /\ \A i \in NonCatalogErrorIndexes :
              LET k == Cardinality({ j \in NonCatalogErrorIndexes : j <= i })
                  text == analysis.returnStatements[i].text
              IN  /\ CitesReturn(k, i)
                  /\ Contains(call.result[k].message, Substring0(text, ExcerptLen))
                  /\ Len(text) > ExcerptLen => ~Contains(call.result[k].message, text)

\* C11, amended: checkErrorResponse yields one error violation per
\* errorResponse return with usesAppErrors false, citing that return's line,
\* whose message is the prefix, then the first 50 characters of the return's
\* text (the whole text when it is shorter), then three dots: no character of
\* the text after the 50th is taken
MessageQuotesBoundedExcerpt ==
    (call.fn = "checkErrorResponse") =>
        /\ Len(call.result) = Cardinality(NonCatalogErrorIndexes)
        /\ \A i \in NonCatalogErrorIndexes :
              LET k == Cardinality({ j \in NonCatalogErrorIndexes : j <= i })
                  text == analysis.returnStatements[i].text
                  message == call.result[k].message
                  excerpt == ExcerptOf(message)
              IN  /\ CitesReturn(k, i)
                  /\ Len(message) >= Len(MsgErrorPrefix) + Len(Ellipsis)
                  /\ SubSeq(message, 1, Len(MsgErrorPrefix)) = MsgErrorPrefix
                  /\ SubSeq(message, Len(message) - Len(Ellipsis) + 1, Len(message)) = Ellipsis
                  /\ Len(excerpt) <= ExcerptLen
                  /\ Len(excerpt) <= Len(text)
                  /\ excerpt = SubSeq(text, 1, Len(excerpt))
                  /\ Len(excerpt) < ExcerptLen => excerpt = text

\* checkErrorResponse reported a return whose text is longer than the excerpt,
\* and quoted 50 characters of it
LongTextReportedByExcerpt ==
    /\ call.fn = "checkErrorResponse"
    /\ \E i \in NonCatalogErrorIndexes :
          /\ Len(analysis.returnStatements[i].text) > ExcerptLen
          /\ Len(ExcerptOf(call.result[Cardinality({ j \in NonCatalogErrorIndexes : j <= i })].message)) = ExcerptLen

----------------------------------------------------------------------------
(* Properties of verdicts (specifications SpecAll and SpecRules) *)

PassedIffNoViolation(verdict) == verdict.passed <=> (verdict.violations = << >>)

\* C12: every verdict validateMethod returns, and every element of the
\* results of a run and of the summary it returns, has passed true exactly
\* when its violations list is empty
VerdictPassedIffNoViolation ==
    /\ (call.fn = "validateMethod") => PassedIffNoViolation(call.result)
    /\ \A i \in 1..Len(results) : PassedIffNoViolation(results[i])
    /\ (summary # NoSummary) =>
          \A i \in 1..Len(summary.results) : PassedIffNoViolation(summary.results[i])

\* a run returned a verdict that passed with no violation and one that failed
\* on a single warning
PassedAndWarnedVerdictsReturned ==
    /\ Returned
    /\ \E i \in 1..Len(summary.results) :
          summary.results[i].passed /\ summary.results[i].violations = << >>
    /\ \E j \in 1..Len(summary.results) :
          /\ ~summary.results[j].passed
          /\ Len(summary.results[j].violations) = 1
          /\ summary.results[j].violations[1].severity = "warning"

\* the rank of a rule in the order validateMethod applies the rules
RuleRank(rule) ==
    CASE rule = "validate-using" -> 1
      [] rule = "success-response-typed" -> 2
      [] rule = "error-response-app-errors" -> 3

\* C13: the violations of a verdict are the request-validation violation (if
\* any), then the violations of every untyped successResponse, then those of
\* every errorResponse without AppErrors, each group in the order of the
\* returns, whatever the order of the returns in the method
ViolationsGroupedByRule ==
    (call.fn = "validateMethod") =>
        LET vs == call.result.violations
            request == IF checkValidateUsing(analysis) = Null THEN 0 ELSE 1
        IN  /\ Len(vs) = request + Cardinality(UntypedSuccessIndexes)
                                 + Cardinality(NonCatalogErrorIndexes)
            /\ \A i \in 1..Len(vs) : \A j \in 1..Len(vs) :
                  i < j =>
                      /\ RuleRank(vs[i].rule) <= RuleRank(vs[j].rule)
                      /\ (vs[i].rule = vs[j].rule) => vs[i].line < vs[j].line
            /\ Cardinality({ i \in 1..Len(vs) : vs[i].rule = "validate-using" }) = request
            /\ { vs[i].line : i \in { k \in 1..Len(vs) : vs[k].rule = "success-response-typed" } }
                  = { analysis.returnStatements[i].line : i \in UntypedSuccessIndexes }
            /\ { vs[i].line : i \in { k \in 1..Len(vs) : vs[k].rule = "error-response-app-errors" } }
                  = { analysis.returnStatements[i].line : i \in NonCatalogErrorIndexes }

\* validateMethod judged a method that breaks the three rules and whose
\* offending errorResponse stands before its offending successResponse: the
\* successResponse violation is listed first
ErrorReturnBeforeSuccessReturn ==
    /\ call.fn = "validateMethod"
    /\ Len(call.result.violations) = 3
    /\ call.result.violations[1].rule = "validate-using"
    /\ call.result.violations[2].rule = "success-response-typed"
    /\ call.result.violations[3].rule = "error-response-app-errors"
    /\ call.result.violations[3].line < call.result.violations[2].line

----------------------------------------------------------------------------
(* Properties of skipped routes (specification Spec) *)

\* the controller file a route leads to, and the key the whitelist is asked for
FileOf(route) == resolveControllerPath(config.controllersDir, route.controller)

KeyOf(route) == methodKeyOf(route.controller, route.handler)

\* the route's handler is a method of the default class of the route's file
HandlerAnalyzed(route) ==
    /\ existsSync(project, FileOf(route))
    /\ canLoad(project, FileOf(route))
    /\ EntryIndex(analyzeController(project, FileOf(route)), route.handler) # 0

\* a route that nothing skips
Kept(route) ==
    /\ existsSync(project, FileOf(route))
    /\ ~isWhitelisted(config, KeyOf(route))
    /\ HandlerAnalyzed(route)

\* the returned summary holds a verdict pushed for the route
HasVerdict(route) ==
    \E i \in 1..Len(validated) :
        /\ validated[i] = route
        /\ i <= Len(summary.results)
        /\ summary.results[i].method = route.handler
        /\ summary.results[i].filePath = FileOf(route)

\* C14: when a controller's file does not exist, no route of that controller
\* gets a verdict and the file is not analyzed; the run goes on, and the
\* summary it returns holds a verdict for every route of the other
\* controllers that nothing else skips
MissingControllerSkipped ==
    /\ \A i \in 1..Len(validated) : existsSync(project, FileOf(validated[i]))
    /\ \A i \in 1..Len(analyzed) : existsSync(project, analyzed[i])
    /\ Returned =>
          /\ Len(summary.results) = Len(validated)
          /\ \A i \in 1..Len(routes) : Kept(routes[i]) => HasVerdict(routes[i])

\* a run met a missing controller file first and still returned the verdict
\* of a route of the next controller
RunContinuedAfterMissingController ==
    /\ Returned
    /\ Len(routes) = 2
    /\ ~existsSync(project, FileOf(routes[1]))
    /\ Kept(routes[2])
    /\ Len(summary.results) = 1
    /\ HasVerdict(routes[2])
    /\ analyzed = << FileOf(routes[2]) >>

\* a route that only its handler's absence skips
HandlerMissing(route) ==
    /\ existsSync(project, FileOf(route))
    /\ ~isWhitelisted(config, KeyOf(route))
    /\ ~HandlerAnalyzed(route)

\* C15: a route that is not whitelisted and whose handler is not among the
\* analyzed methods of its controller gets no verdict and a warning naming
\* its key; the run goes on with the other routes of the controller and with
\* the later controllers, whose kept routes all get their verdict
MissingHandlerSkipped ==
    /\ \A i \in 1..Len(validated) : HandlerAnalyzed(validated[i])
    /\ Returned =>
          \A i \in 1..Len(routes) :
              /\ HandlerMissing(routes[i]) =>
                    /\ \A k \in 1..Len(validated) : validated[k] # routes[i]
                    /\ (<< "Method not found: " >> \o KeyOf(routes[i])) \in Range(warnings)
              /\ Kept(routes[i]) => HasVerdict(routes[i])

\* a run met a route with a missing handler and then validated a later route
\* of the same controller
RunContinuedAfterMissingHandler ==
    /\ Returned
    /\ Len(routes) = 2
    /\ routes[1].controller = routes[2].controller
    /\ HandlerMissing(routes[1])
    /\ Kept(routes[2])
    /\ HasVerdict(routes[2])
    /\ Len(summary.results) = 1
    /\ warnings = << << "Method not found: " >> \o KeyOf(routes[1]) >>

\* the indexes of the failed verdicts of the results array
FailedIndexes == { i \in 1..Len(results) : ~results[i].passed }

\* C19: the violations list of the summary a run returns is the failed
\* verdicts of results, in the order of results, and failedMethods is its length
ViolationsAreFailedResultsInOrder ==
    Returned =>
        /\ summary.results = results
        /\ Len(summary.violations) = Cardinality(FailedIndexes)
        /\ summary.failedMethods = Len(summary.violations)
        /\ \A i \in FailedIndexes :
              summary.violations[Cardinality({ j \in FailedIndexes : j <= i })] = results[i]

\* a run returned two different failed verdicts, listed in the order of results
TwoFailedVerdictsListedInOrder ==
    /\ Returned
    /\ FailedIndexes = { 1, 2 }
    /\ results[1] # results[2]
    /\ summary.violations = << results[1], results[2] >>

----------------------------------------------------------------------------
(* Properties of failures (specification Spec) *)

\* C16: when the routes file cannot be loaded, runValidation ends by an
\* exception before any controller is analyzed or any verdict is made and
\* returns no summary; the command that called it ends with a non-zero exit
\* status and prints no summary
RoutesFileFailureAborts ==
    ~routesFileReadable =>
        /\ pc \in { "start", "threw", "failed" }
        /\ summary = NoSummary
        /\ analyzed = << >>
        /\ results = << >>
        /\ (pc = "failed") =>
              /\ exitCode # NoExit
              /\ exitCode # { 0 }
              /\ \A i \in 1..Len(printed) : "summary" \notin DOMAIN printed[i]
        /\ (pc # "failed") => exitCode = NoExit /\ printed = << >>

\* a command ran on a project whose routes file cannot be loaded and ended
\* with status 1, having printed the error only
CommandFailedOnRoutesFile ==
    /\ ~routesFileReadable
    /\ pc = "failed"
    /\ exitCode = { 1 }
    /\ Len(printed) = 1
    /\ DOMAIN printed[1] = { "error" }

\* C17 as stated: only a routes file that cannot be loaded makes runValidation
\* end by an exception; with a loadable routes file every run returns a
\* summary, whatever the state of the controller files
OnlyRoutesFileFailurePropagates ==
    /\ (pc \in { "threw", "failed" }) => ~routesFileReadable
    /\ (routesFileReadable /\ exitCode # NoExit) => summary # NoSummary

----------------------------------------------------------------------------
(* Configuration loading: loadConfig of src/cli.ts, on its own *)

DEFAULT_CONFIG == ValidatorConfig(<< >>, TRUE)

\* object spread { ...base, ...over }: the keys of over win
Spread(base, over) ==
    [ k \in (DOMAIN base) \cup (DOMAIN over) |->
        IF k \in DOMAIN over THEN over[k] ELSE base[k] ]

\* the empty object, and what spreading a falsy value adds
EmptyObject == << >>

\* an option that takes a value is a set: {} when the flag is not given,
\* { value } when it is; JavaScript takes the empty string for false
Truthy(opt) == opt # Undefined /\ opt # { "" }

ValueOf(opt) == CHOOSE v \in opt : TRUE

CliOptions(routesOpt, controllersOpt, fail) ==
    [ routes |-> routesOpt, controllers |-> controllersOpt, fail |-> fail ]

\* --routes and --controllers not given, given with an empty value, given with
\* a path; --no-fail given (fail = FALSE) or not (fail = TRUE)
CliOptionSamples ==
    { CliOptions(r, c, f) :
        r \in { Undefined, { "" }, { "cli/routes.ts" } },
        c \in { Undefined, { "" }, { "cli/controllers" } },
        f \in BOOLEAN }

\* the config file: absent, or a JSON object setting some of the fields
NoFile == [ exists |-> FALSE ]

ConfigFile(content) == [ exists |-> TRUE, content |-> content ]

FileFields == { "routesFile", "controllersDir", "failOnError", "whitelist", "strictMode" }

FileValues ==
    { [ routesFile |-> "file/routes.ts",
        controllersDir |-> "file/controllers",
        failOnError |-> f,
        whitelist |-> << methodKeyOf(Widget, store) >>,
        strictMode |-> FALSE ] : f \in BOOLEAN }

ConfigFiles ==
    { NoFile } \cup
    { ConfigFile([ k \in fields |-> full[k] ]) : fields \in SUBSET FileFields, full \in FileValues }

\* src/cli.ts loadConfig: defaults, then the file, then the flags that are truthy
loadConfig(file, options) ==
    LET fileConfig == IF file.exists THEN file.content ELSE EmptyObject
    IN  Spread(Spread(Spread(Spread(DEFAULT_CONFIG, fileConfig),
            IF Truthy(options.routes) THEN [ routesFile |-> ValueOf(options.routes) ] ELSE EmptyObject),
            IF Truthy(options.controllers)
            THEN [ controllersDir |-> ValueOf(options.controllers) ] ELSE EmptyObject),
            IF options.fail = FALSE THEN [ failOnError |-> FALSE ] ELSE EmptyObject)

\* no run is going on: a function is applied on its own, at position at
IdleRun(at) ==
    /\ entry = "none"
    /\ config = DEFAULT_CONFIG
    /\ noFail = FALSE
    /\ routesFileReadable = TRUE
    /\ routes = << >>
    /\ pc = at
    /\ routesByController = << >>
    /\ ci = 0
    /\ ri = 0
    /\ methodAnalyses = << >>
    /\ results = << >>
    /\ summary = NoSummary
    /\ exitCode = NoExit
    /\ printed = << >>
    /\ validated = << >>
    /\ analyzed = << >>
    /\ warnings = << >>
    /\ analysis = NoAnalysis
    /\ call = NoCall

\* the same on a project with no controller file
RunIdle(at) ==
    /\ IdleRun(at)
    /\ project = [ p \in ControllerPaths |-> Missing ]

InitConfig ==
    /\ RunIdle("config")
    /\ input \in { [ file |-> f, options |-> o ] : f \in ConfigFiles, o \in CliOptionSamples }

CallLoadConfig ==
    /\ pc = "config"
    /\ call = NoCall
    /\ call' = [ fn |-> "loadConfig", result |-> loadConfig(input.file, input.options) ]
    /\ UNCHANGED << analysis, input, runVars >>

NextConfig == CallLoadConfig

SpecConfig == InitConfig /\ [][NextConfig]_vars

----------------------------------------------------------------------------
(* Properties of loadConfig (specification SpecConfig) *)

\* the value the config file sets for a field, or the built-in default
FileOrDefault(field) ==
    IF input.file.exists /\ field \in DOMAIN input.file.content
    THEN input.file.content[field]
    ELSE DEFAULT_CONFIG[field]

\* C18 as stated: routesFile, controllersDir and failOnError of the config
\* loadConfig returns are the flag's value when the flag is given, else the
\* config file's value when the file sets the field, else the default; the
\* fields without a flag take the file's value over the default
FlagThenFileThenDefault ==
    (call.fn = "loadConfig") =>
        /\ call.result.routesFile =
              IF input.options.routes # Undefined THEN ValueOf(input.options.routes)
              ELSE FileOrDefault("routesFile")
        /\ call.result.controllersDir =
              IF input.options.controllers # Undefined THEN ValueOf(input.options.controllers)
              ELSE FileOrDefault("controllersDir")
        /\ call.result.failOnError =
              IF input.options.fail = FALSE THEN FALSE ELSE FileOrDefault("failOnError")
        /\ call.result.whitelist = FileOrDefault("whitelist")
        /\ call.result.strictMode = FileOrDefault("strictMode")
        /\ call.result.appErrorsPath = FileOrDefault("appErrorsPath")

----------------------------------------------------------------------------
(* Path parameters: extractPathParams of src/parsers/route-parser.ts, on its own *)

\* longest path built from PathChars
MaxPathLen == 6

\* a slash, a colon, a letter, an underscore and a digit
PathChars == { "/", ":", "a", "_", "2" }

\* the path of the route-parser test, and a path with uppercase names
UsersPostsPath ==
    << "/", "u", "s", "e", "r", "s", "/", ":", "i", "d", "/",
       "p", "o", "s", "t", "s", "/", ":", "p", "o", "s", "t", "_", "i", "d" >>

UpperCasePath == << "/", "A", "/", ":", "I", "d" >>

PathSamples == SeqUpTo(PathChars, MaxPathLen) \cup { UsersPostsPath, UpperCasePath }

\* the character class [a-zA-Z_] of the regular expression
IsNameChar(c) == IsUpper(c) \/ IsLower(c) \/ c = "_"

\* the index of the last character of the longest run of name characters
\* that starts at index i: + is greedy
RECURSIVE NameRunEnd(_, _)
NameRunEnd(path, i) ==
    IF i + 1 <= Len(path) /\ IsNameChar(path[i + 1]) THEN NameRunEnd(path, i + 1) ELSE i

\* path.match(/:([a-zA-Z_]+)/g) || [] : the matches from index i on, left to
\* right, each the colon and the longest run of name characters after it
RECURSIVE matchAll(_, _)
matchAll(path, i) ==
    IF i > Len(path) THEN << >>
    ELSE IF path[i] = ":" /\ i + 1 <= Len(path) /\ IsNameChar(path[i + 1])
         THEN LET last == NameRunEnd(path, i + 1)
              IN  << SubSeq(path, i, last) >> \o matchAll(path, last + 1)
         ELSE matchAll(path, i + 1)

\* String.prototype.substring(1)
Substring1(m) == SubSeq(m, 2, Len(m))

extractPathParams(path) ==
    LET matches == matchAll(path, 1)
    IN  [ k \in 1..Len(matches) |-> Substring1(matches[k]) ]

InitPaths ==
    /\ RunIdle("paths")
    /\ input \in PathSamples

CallExtractPathParams ==
    /\ pc = "paths"
    /\ call = NoCall
    /\ call' = [ fn |-> "extractPathParams", result |-> extractPathParams(input) ]
    /\ UNCHANGED << analysis, input, runVars >>

NextPaths == CallExtractPathParams

SpecPaths == InitPaths /\ [][NextPaths]_vars

----------------------------------------------------------------------------
(* Properties of extractPathParams (specification SpecPaths) *)

IsDigit(c) == c \in Range(DigitChars)

\* an identifier: a letter or an underscore, then letters, digits, underscores
IsIdentifierPart(c) == IsNameChar(c) \/ IsDigit(c)

IsIdentifier(s) ==
    /\ Len(s) > 0
    /\ IsNameChar(s[1])
    /\ \A k \in 1..Len(s) : IsIdentifierPart(s[k])

\* the index of the last character of the identifier that starts at index i
RECURSIVE IdentifierEnd(_, _)
IdentifierEnd(path, i) ==
    IF i + 1 <= Len(path) /\ IsIdentifierPart(path[i + 1]) THEN IdentifierEnd(path, i + 1) ELSE i

\* the names of the substrings :identifier of a path from index i on, left to right
RECURSIVE ColonIdentifiers(_, _)
ColonIdentifiers(path, i) ==
    IF i > Len(path) THEN << >>
    ELSE IF path[i] = ":" /\ i + 1 <= Len(path) /\ IsNameChar(path[i + 1])
         THEN LET last == IdentifierEnd(path, i + 1)
              IN  << SubSeq(path, i + 1, last) >> \o ColonIdentifiers(path, last + 1)
         ELSE ColonIdentifiers(path, i + 1)

\* C20 as stated: extractPathParams returns the names of every substring
\* :identifier of the path, left to right, duplicates kept; a path /a/:b
\* with identifiers a and b yields the list of b alone; the path
\* /users/:id/posts/:post_id yields id, post_id
EveryColonIdentifierExtracted ==
    (call.fn = "extractPathParams") =>
        /\ call.result = ColonIdentifiers(input, 1)
        /\ \A n \in 2..(Len(input) - 3) :
              LET a == SubSeq(input, 2, n)
                  b == SubSeq(input, n + 3, Len(input))
              IN  (/\ input[1] = "/"
                   /\ IsIdentifier(a)
                   /\ SubSeq(input, n + 1, n + 2) = << "/", ":" >>
                   /\ IsIdentifier(b))
                  => call.result = << b >>
        /\ (input = UsersPostsPath) =>
              call.result = << << "i", "d" >>, << "p", "o", "s", "t", "_", "i", "d" >> >>

----------------------------------------------------------------------------
(* Route extraction: parseRoutes and parseRouteCall of                     *)
(* src/parsers/route-parser.ts, on their own                               *)

\* longest list of call expressions in a routes file
MaxCalls == 2

RouterDot == << "r", "o", "u", "t", "e", "r", "." >>

\* get|post|patch|put|delete|any
HttpVerbs ==
    { << "g", "e", "t" >>, << "p", "o", "s", "t" >>, << "p", "a", "t", "c", "h" >>,
      << "p", "u", "t" >>, << "d", "e", "l", "e", "t", "e" >>, << "a", "n", "y" >> }

EndsWith(s, t) == Len(t) <= Len(s) /\ SubSeq(s, Len(s) - Len(t) + 1, Len(s)) = t

\* faulty variant: every property of router counts as a verb
methodMatchAnyProperty(callee) ==
    IF Len(callee) > Len(RouterDot) /\ SubSeq(callee, 1, Len(RouterDot)) = RouterDot
    THEN { SubSeq(callee, Len(RouterDot) + 1, Len(callee)) }
    ELSE Undefined

\* expressionText.match(/router\.(get|post|patch|put|delete|any)$/): the verb
\* captured, Undefined when the text does not end so
methodMatch(callee) == { v \in HttpVerbs : EndsWith(callee, RouterDot \o v) }

\* text.replace(/['"]/g, "")
StripQuotes(text) == SelectSeq(text, LAMBDA c : c \notin { "'", "\"" })

\* the callees of the calls in a routes file: router.get, xrouter.post,
\* router.group and use
Callees ==
    { RouterDot \o << "g", "e", "t" >>,
      << "x" >> \o RouterDot \o << "p", "o", "s", "t" >>,
      RouterDot \o << "g", "r", "o", "u", "p" >>,
      << "u", "s", "e" >> }

\* first arguments: '/x', "/:a" and '/:2'
PathArgs ==
    { [ kind |-> "StringLiteral", text |-> << "'", "/", "x", "'" >> ],
      [ kind |-> "StringLiteral", text |-> << "\"", "/", ":", "a", "\"" >> ],
      [ kind |-> "StringLiteral", text |-> << "'", "/", ":", "2", "'" >> ] }

\* second arguments: [Widget, 'show'], [Widget, 'show', 'x'], [Widget] and an
\* inline handler
HandlerArgs ==
    { [ kind |-> "ArrayLiteralExpression", elements |-> << Widget, << "'" >> \o show \o << "'" >> >> ],
      [ kind |-> "ArrayLiteralExpression",
        elements |-> << Widget, << "'" >> \o show \o << "'" >>, << "'", "x", "'" >> >> ],
      [ kind |-> "ArrayLiteralExpression", elements |-> << Widget >> ],
      [ kind |-> "ArrowFunction" ] }

\* the argument lists: none, a path alone, a path and a handler
ArgLists ==
    { << >> } \cup { << p >> : p \in PathArgs }
    \cup { << p, h >> : p \in PathArgs, h \in HandlerArgs }

\* the call expressions of a routes file, one per line
CallLists ==
    { [ i \in 1..k |-> [ callee |-> cs[i], args |-> as[i], line |-> i ] ] :
        k \in 0..MaxCalls, cs \in [1..MaxCalls -> Callees], as \in [1..MaxCalls -> ArgLists] }

\* faulty variant: hasPathParams tells whether the path holds a colon
parseRouteCallColonTest(c) ==
    IF methodMatch(c.callee) = Undefined \/ Len(c.args) < 2 THEN Null
    ELSE IF c.args[2].kind # "ArrayLiteralExpression" THEN Null
    ELSE IF Len(c.args[2].elements) # 2 THEN Null
    ELSE [ method |-> ValueOf(methodMatch(c.callee)),
           path |-> StripQuotes(c.args[1].text),
           controller |-> c.args[2].elements[1],
           handler |-> StripQuotes(c.args[2].elements[2]),
           line |-> c.line,
           hasPathParams |-> ":" \in Range(StripQuotes(c.args[1].text)),
           pathParams |-> extractPathParams(StripQuotes(c.args[1].text)) ]

parseRouteCall(c) ==
    IF methodMatch(c.callee) = Undefined THEN Null
    ELSE IF Len(c.args) < 2 THEN Null
    ELSE IF c.args[2].kind # "ArrayLiteralExpression" THEN Null
    ELSE IF Len(c.args[2].elements) # 2 THEN Null
    ELSE LET path == StripQuotes(c.args[1].text)
             pathParams == extractPathParams(path)
         IN  [ method |-> ValueOf(methodMatch(c.callee)),
               path |-> path,
               controller |-> c.args[2].elements[1],
               handler |-> StripQuotes(c.args[2].elements[2]),
               line |-> c.line,
               hasPathParams |-> Len(pathParams) > 0,
               pathParams |-> pathParams ]

\* parseRoutes, from the call expressions of the routes file on
RECURSIVE parseCalls(_)
parseCalls(calls) ==
    IF calls = << >> THEN << >>
    ELSE (IF parseRouteCall(Head(calls)) # Null
          THEN << parseRouteCall(Head(calls)) >> ELSE << >>)
         \o parseCalls(Tail(calls))

InitParse ==
    /\ RunIdle("parse")
    /\ input \in CallLists

CallParseRoutes ==
    /\ pc = "parse"
    /\ call = NoCall
    /\ call' = [ fn |-> "parseRoutes", result |-> parseCalls(input) ]
    /\ UNCHANGED << analysis, input, runVars >>

SpecParse == InitParse /\ [][CallParseRoutes]_vars

----------------------------------------------------------------------------
(* Properties of route extraction (specification SpecParse) *)

\* C21: every route parseRoutes returns has hasPathParams true exactly when
\* its pathParams list is not empty
HasPathParamsIffSomeParam ==
    (call.fn = "parseRoutes") =>
        \A k \in 1..Len(call.result) :
            call.result[k].hasPathParams <=> (call.result[k].pathParams # << >>)

\* parseRoutes returned a route whose path holds a colon and no parameter, and
\* a route with a parameter
RoutesWithAndWithoutParams ==
    /\ call.fn = "parseRoutes"
    /\ \E k \in 1..Len(call.result) :
          /\ ":" \in Range(call.result[k].path)
          /\ call.result[k].pathParams = << >>
          /\ ~call.result[k].hasPathParams
    /\ \E k \in 1..Len(call.result) :
          /\ call.result[k].pathParams = << << "a" >> >>
          /\ call.result[k].hasPathParams

\* the call on line i is a route: its callee ends in router.<verb>, it has
\* two arguments or more and the second is an array literal of two elements
IsRouteCall(i) ==
    /\ \E v \in HttpVerbs : EndsWith(input[i].callee, RouterDot \o v)
    /\ Len(input[i].args) >= 2
    /\ input[i].args[2].kind = "ArrayLiteralExpression"
    /\ Len(input[i].args[2].elements) = 2

RouteCallLines == { i \in 1..Len(input) : IsRouteCall(i) }

\* C25: parseRoutes returns one route for each call whose callee ends in
\* router.<verb>, that has two arguments or more and whose second argument
\* is an array literal of two elements, in the order of the calls, and
\* nothing for any other call, whatever stands before or after it
OnlyRouteCallsYieldRoutes ==
    (call.fn = "parseRoutes") =>
        /\ Len(call.result) = Cardinality(RouteCallLines)
        /\ \A i \in RouteCallLines :
              LET route == call.result[Cardinality({ j \in RouteCallLines : j <= i })]
              IN  /\ route.line = i
                  /\ EndsWith(input[i].callee, RouterDot \o route.method)
                  /\ route.controller = input[i].args[2].elements[1]

\* parseRoutes went over a call that is no route and returned the route of
\* the call after it
RouteAfterNonRouteExtracted ==
    /\ call.fn = "parseRoutes"
    /\ Len(input) = 2
    /\ ~IsRouteCall(1)
    /\ Len(call.result) = 1
    /\ call.result[1].line = 2

----------------------------------------------------------------------------
(* Properties of route grouping (specification Spec) *)

\* runValidation has grouped the routes
Grouped == routesFileReadable /\ pc # "start"

\* C22: groupRoutesByController returns one group per controller name of the
\* route list, each group holding the routes of its controller, all of them
\* and no other, in the order they have in the list; an empty list gives an
\* empty map
GroupingIsStablePartition ==
    Grouped =>
        /\ \A i \in 1..Len(routesByController) : \A j \in 1..Len(routesByController) :
              (routesByController[i].key = routesByController[j].key) => i = j
        /\ { routesByController[i].key : i \in 1..Len(routesByController) }
              = { routes[k].controller : k \in 1..Len(routes) }
        /\ \A i \in 1..Len(routesByController) :
              routesByController[i].value =
                  SelectSeq(routes, LAMBDA r : r.controller = routesByController[i].key)
        /\ (routes = << >>) => routesByController = << >>

\* two routes of one controller were grouped, the first of the list first
TwoRoutesGroupedInOrder ==
    /\ Grouped
    /\ Len(routes) = 2
    /\ Len(routesByController) = 1
    /\ routesByController[1].value = << routes[1], routes[2] >>

----------------------------------------------------------------------------
(* Controller path resolution: resolveControllerPath, on its own *)

\* longest controller name built from NameChars
MaxNameLen == 4

\* a lowercase letter, two uppercase letters and a digit
NameChars == { "a", "B", "C", "2" }

InitResolve ==
    /\ IdleRun("resolve")
    /\ project \in Projects
    /\ input \in { [ controllersDir |-> d, controllerName |-> n ] :
                     d \in { ControllersDir, "src/http" }, n \in SeqUpTo(NameChars, MaxNameLen) }

CallResolveControllerPath ==
    /\ pc = "resolve"
    /\ call = NoCall
    /\ call' = [ fn |-> "resolveControllerPath",
                 result |-> resolveControllerPath(input.controllersDir, input.controllerName) ]
    /\ UNCHANGED << analysis, input, runVars >>

SpecResolve == InitResolve /\ [][CallResolveControllerPath]_vars

----------------------------------------------------------------------------
(* Properties of resolveControllerPath (specification SpecResolve) *)

\* character i of a name is an uppercase letter right after a lowercase letter
AfterLower(name, i) == i > 1 /\ IsLower(name[i - 1]) /\ IsUpper(name[i])

\* where character i of a name stands in the file name
FileNameIndex(name, i) == i + Cardinality({ j \in 1..i : AfterLower(name, j) })

\* C23: resolveControllerPath returns the controllers directory, then the
\* controller name in lowercase with an underscore before every uppercase
\* letter that stood right after a lowercase letter, then .ts; the result is
\* told by the two arguments alone, whatever files the project holds
PathIsSnakeCasedName ==
    (call.fn = "resolveControllerPath") =>
        LET name == input.controllerName
            dir == ControllersDirPath(input.controllersDir)
            fileName == SubSeq(call.result, Len(dir) + 1, Len(call.result) - 1)
        IN  /\ Len(call.result) >= Len(dir) + 1
            /\ SubSeq(call.result, 1, Len(dir)) = dir
            /\ call.result[Len(call.result)] = ".ts"
            /\ Len(fileName) = FileNameIndex(name, Len(name))
            /\ \A i \in 1..Len(name) :
                  /\ fileName[FileNameIndex(name, i)] = ToLowerChar(name[i])
                  /\ AfterLower(name, i) => fileName[FileNameIndex(name, i) - 1] = "_"

\* a name with an uppercase letter after a lowercase one and one after an
\* uppercase one was resolved, in a project that holds controller files
AcronymNameResolved ==
    /\ call.fn = "resolveControllerPath"
    /\ input.controllerName = << "a", "B", "C" >>
    /\ call.result = ControllersDirPath(input.controllersDir) \o << "a", "_", "b", "c", ".ts" >>
    /\ \E p \in DOMAIN project : project[p].exists

----------------------------------------------------------------------------
(* Properties of files without a default class (specification Spec) *)

\* the route's file is there and loads, and holds no default-exported class
NoDefaultClass(route) ==
    /\ existsSync(project, FileOf(route))
    /\ canLoad(project, FileOf(route))
    /\ ~project[FileOf(route)].hasDefaultClass

\* C24 as stated: a route whose controller file has no default-exported class
\* gets no verdict, and no warning is logged for it
NoDefaultClassIsSilent ==
    \A i \in 1..Len(routes) :
        NoDefaultClass(routes[i]) =>
            /\ \A k \in 1..Len(validated) : validated[k] # routes[i]
            /\ \A k \in 1..Len(warnings) :
                  warnings[k] # << "Method not found: " >> \o KeyOf(routes[i])

----------------------------------------------------------------------------
(* Return classification: analyzeReturnStatements of                       *)
(* src/parsers/controller-analyzer.ts, on its own. The text of a returned  *)
(* expression is a sequence of tokens; a text includes a string when one   *)
(* of its tokens is that string.                                           *)

ReturnTokens ==
    { "this.successResponse", "<T>", "this.errorResponse", "AppErrors.NotFound", "(x)" }

\* the texts of returned expressions: one or two tokens
ExpressionTexts == SeqUpTo(ReturnTokens, 2) \ { << >> }

\* the return statements of a method body, one per line: a bare return has
\* no expression
ReturnNodeLists ==
    { [ i \in 1..k |-> [ line |-> i, expression |-> es[i] ] ] :
        k \in 0..MaxReturns,
        es \in [1..MaxReturns -> { Undefined } \cup { { t } : t \in ExpressionTexts }] }

\* /successResponse\s*<[^>]+>/.test(text)
checkHasGenericType(text) ==
    \E i \in 1..(Len(text) - 1) : text[i] = "this.successResponse" /\ text[i + 1] = "<T>"

\* /AppErrors\.\w+/.test(text)
checkUsesAppErrors(text) == "AppErrors.NotFound" \in Range(text)

\* faulty variant: the test for errorResponse comes first
RECURSIVE analyzeReturnsErrorFirst(_)
analyzeReturnsErrorFirst(returns) ==
    IF returns = << >> THEN << >>
    ELSE LET ret == Head(returns)
             text == ValueOf(ret.expression)
         IN  (IF ret.expression = Undefined THEN << >>
              ELSE IF "this.errorResponse" \in Range(text)
                   THEN << ReturnStatement(ret.line, "errorResponse", checkUsesAppErrors(text), text) >>
              ELSE IF "this.successResponse" \in Range(text)
                   THEN << ReturnStatement(ret.line, "successResponse", checkHasGenericType(text), text) >>
              ELSE << ReturnStatement(ret.line, "other", FALSE, text) >>)
             \o analyzeReturnsErrorFirst(Tail(returns))

analyzeReturnStatementsErrorFirst(returns) == analyzeReturnsErrorFirst(returns)

RECURSIVE analyzeReturns(_)
analyzeReturns(returns) ==
    IF returns = << >> THEN << >>
    ELSE LET ret == Head(returns)
             text == ValueOf(ret.expression)
         IN  (IF ret.expression = Undefined THEN << >>
              ELSE IF "this.successResponse" \in Range(text)
                   THEN << ReturnStatement(ret.line, "successResponse", checkHasGenericType(text), text) >>
              ELSE IF "this.errorResponse" \in Range(text)
                   THEN << ReturnStatement(ret.line, "errorResponse", checkUsesAppErrors(text), text) >>
              ELSE << ReturnStatement(ret.line, "other", FALSE, text) >>)
             \o analyzeReturns(Tail(returns))

analyzeReturnStatements(returns) == analyzeReturns(returns)

InitReturns ==
    /\ RunIdle("returns")
    /\ input \in ReturnNodeLists

CallAnalyzeReturnStatements ==
    /\ pc = "returns"
    /\ call = NoCall
    /\ call' = [ fn |-> "analyzeReturnStatements", result |-> analyzeReturnStatements(input) ]
    /\ UNCHANGED << analysis, input, runVars >>

SpecReturns == InitReturns /\ [][CallAnalyzeReturnStatements]_vars

----------------------------------------------------------------------------
(* Properties of return classification (specification SpecReturns) *)

\* the lines of the returns that have an expression
ExpressionLines == { i \in 1..Len(input) : input[i].expression # Undefined }

\* C26: analyzeReturnStatements yields one fact per return that has an
\* expression, in source order, and none for a bare return; the fact is a
\* successResponse when the text includes this.successResponse, even if it
\* includes this.errorResponse too, else an errorResponse when it includes
\* this.errorResponse, else other; hasGenericType is set on successResponse
\* facts only and usesAppErrors on errorResponse facts only
ReturnsClassifiedOnce ==
    (call.fn = "analyzeReturnStatements") =>
        /\ Len(call.result) = Cardinality(ExpressionLines)
        /\ \A i \in ExpressionLines :
              LET fact == call.result[Cardinality({ j \in ExpressionLines : j <= i })]
                  text == CHOOSE t \in input[i].expression : TRUE
              IN  /\ fact.line = input[i].line
                  /\ fact.text = text
                  /\ fact.type =
                        IF \E k \in 1..Len(text) : text[k] = "this.successResponse"
                        THEN "successResponse"
                        ELSE IF \E k \in 1..Len(text) : text[k] = "this.errorResponse"
                             THEN "errorResponse"
                             ELSE "other"
                  /\ (fact.hasGenericType # Undefined) <=> (fact.type = "successResponse")
                  /\ (fact.usesAppErrors # Undefined) <=> (fact.type = "errorResponse")

\* a bare return was passed over and a return whose text includes both
\* constructors came out as a successResponse
BothConstructorsGiveSuccess ==
    /\ call.fn = "analyzeReturnStatements"
    /\ Len(input) = 2
    /\ input[1].expression = Undefined
    /\ input[2].expression = { << "this.errorResponse", "this.successResponse" >> }
    /\ Len(call.result) = 1
    /\ call.result[1].type = "successResponse"
    /\ call.result[1].line = 2

----------------------------------------------------------------------------
(* Properties of the order of the skips (specification Spec) *)

\* the route's key is whitelisted and its handler is no method of its file
WhitelistedAndMissing(route) ==
    /\ Includes(config.whitelist, KeyOf(route))
    /\ existsSync(project, FileOf(route))
    /\ canLoad(project, FileOf(route))
    /\ ~HandlerAnalyzed(route)

\* C27: a route whose key is whitelisted and whose handler is not among the
\* analyzed methods of its controller is skipped as any whitelisted route is:
\* no verdict is pushed for it and no missing-method warning is logged
WhitelistAskedBeforeLookup ==
    \A i \in 1..Len(routes) :
        WhitelistedAndMissing(routes[i]) =>
            /\ \A k \in 1..Len(validated) : validated[k] # routes[i]
            /\ \A k \in 1..Len(warnings) :
                  warnings[k] # << "Method not found: " >> \o KeyOf(routes[i])

\* a run whose only route is whitelisted and names a method its controller
\* does not have returned with no verdict and no warning
WhitelistedMissingHandlerSilent ==
    /\ Returned
    /\ Len(routes) = 1
    /\ WhitelistedAndMissing(routes[1])
    /\ analyzed = << FileOf(routes[1]) >>
    /\ summary.totalMethods = 0
    /\ warnings = << >>

----------------------------------------------------------------------------
(* Properties of the order of the results (specification Spec) *)

\* the lines of the routes that nothing skips: the file is there, the key is
\* not in the whitelist, the handler is a method of the file's default class
KeptLines ==
    { i \in 1..Len(routes) :
        /\ existsSync(project, FileOf(routes[i]))
        /\ KeyOf(routes[i]) \notin Range(config.whitelist)
        /\ HandlerAnalyzed(routes[i]) }

\* the line on which the controller of route i is first named
FirstSeen(i) ==
    CHOOSE j \in 1..i :
        /\ routes[j].controller = routes[i].controller
        /\ \A k \in 1..(j - 1) : routes[k].controller # routes[i].controller

\* route j is taken before route i: its controller was seen first, or they
\* share the controller and j stands first
TakenBefore(j, i) ==
    \/ FirstSeen(j) < FirstSeen(i)
    \/ FirstSeen(j) = FirstSeen(i) /\ j < i

\* the place in results of the verdict of kept route i
PlaceOf(i) == 1 + Cardinality({ j \in KeptLines : TakenBefore(j, i) })

\* C28: the results of a returned run hold one verdict per kept route and no
\* other, controllers in the order they are first named and routes in the
\* order of the routes file within a controller; the three counts of the
\* summary count the kept routes only
ResultsAreKeptRoutesInOrder ==
    Returned =>
        /\ Len(summary.results) = Cardinality(KeptLines)
        /\ Len(validated) = Cardinality(KeptLines)
        /\ \A i \in KeptLines :
              /\ validated[PlaceOf(i)] = routes[i]
              /\ summary.results[PlaceOf(i)].method = routes[i].handler
              /\ summary.results[PlaceOf(i)].filePath = FileOf(routes[i])
        /\ summary.totalMethods = Cardinality(KeptLines)
        /\ summary.passedMethods + summary.failedMethods = Cardinality(KeptLines)

\* a run over three kept routes, the second of another controller than the
\* first and third, returned the verdict of the third before that of the second
InterleavedRoutesRegrouped ==
    /\ Returned
    /\ routes = InterleavedRoutes
    /\ KeptLines = { 1, 2, 3 }
    /\ validated = << routes[1], routes[3], routes[2] >>
    /\ summary.totalMethods = 3

----------------------------------------------------------------------------
(* Runs under configs that differ in strictMode and appErrorsPath
   (specification SpecFields) *)

AppErrorsPaths == { "#lib/errors", "#app/exceptions" }

\* the configs of one whitelist and failOnError, in every combination of the
\* two fields runValidation never reads
FieldConfigs ==
    { [ ValidatorConfig(w, TRUE) EXCEPT !.strictMode = s, !.appErrorsPath = p ] :
        w \in WhitelistSamples, s \in BOOLEAN, p \in AppErrorsPaths }

InitFields ==
    /\ entry \in { "cli", "ace" }
    /\ config \in FieldConfigs
    /\ noFail = FALSE
    /\ routesFileReadable \in BOOLEAN
    /\ routes \in (IF routesFileReadable THEN RouteLists ELSE { << >> })
    /\ project \in Projects
    /\ pc = "start"
    /\ routesByController = << >>
    /\ ci = 0
    /\ ri = 0
    /\ methodAnalyses = << >>
    /\ results = << >>
    /\ summary = NoSummary
    /\ exitCode = NoExit
    /\ printed = << >>
    /\ validated = << >>
    /\ analyzed = << >>
    /\ warnings = << >>
    /\ analysis = NoAnalysis
    /\ call = NoCall
    /\ input = NoInput

SpecFields == InitFields /\ [][Next]_vars

\* the verdict of the rules on the route's handler as its file declares it
VerdictOf(route) ==
    LET ms == analyzeController(project, FileOf(route))
    IN  validateMethod(ms[EntryIndex(ms, route.handler)].value)

\* the verdicts of the kept routes, each at its place: a value of the routes,
\* the project, controllersDir and the whitelist, and of no other field
VerdictsOfKeptRoutes ==
    [ p \in 1..Cardinality(KeptLines) |->
        VerdictOf(routes[CHOOSE i \in KeptLines : PlaceOf(i) = p]) ]

SummaryIsOfKeptRoutes == Returned => summary = RunResult(VerdictsOfKeptRoutes)

----------------------------------------------------------------------------
(* Properties of warning-only verdicts (specification Spec) *)

\* the verdict carries violations, every one of warning severity
WarningOnly(r) ==
    /\ r.violations # << >>
    /\ \A j \in 1..Len(r.violations) : r.violations[j].severity = "warning"

=============================================================================
